---- MODULE Spec2Model ----
(***************************************************************************)
(* Model of the Hello World message renderer ("Eric/hello world/app.js"):  *)
(* displayMessage(message, elementId), init(), and the registration of     *)
(* init as a DOMContentLoaded listener, together with the part of the host *)
(* document (elements with ids, text and child elements) and of the        *)
(* console that the module reads and writes.                               *)
(***************************************************************************)
EXTENDS Integers, Sequences, FiniteSets, TLC

VARIABLES doc, console, listeners, pc, fired, trace, hostOps

vars == <<doc, console, listeners, pc, fired, trace, hostOps>>

-----------------------------------------------------------------------------
(* Bounds of the model *)

MaxElements == 2
MaxCalls == 2
MaxHostOps == 2
MaxFirings == 2

-----------------------------------------------------------------------------
(* The host document *)

ElementIds == {"message", "other"}
TargetIds == ElementIds \cup {"missing"}
Texts == {"", "Old Text"}
Messages == {"", "Hello World", "Bye"}

\* A child element: an id attribute and one text node.
Leaf == [id : ElementIds, text : Texts]

\* A top-level element with k - 1 children: an id attribute, a leading text
\* node ("" when there is none) and its child elements in tree order.
ElementsOfSize(k) == [id : ElementIds, text : Texts, kids : [1..(k - 1) -> Leaf]]

Element == UNION {ElementsOfSize(k) : k \in 1..MaxElements}

\* The number of elements of a document.
RECURSIVE Size(_)
Size(d) == IF d = <<>> THEN 0 ELSE 1 + Len(Head(d).kids) + Size(Tail(d))

\* The documents of n elements: top-level elements in tree order.
RECURSIVE DocumentsOfSize(_)
DocumentsOfSize(n) ==
  IF n = 0
    THEN {<<>>}
    ELSE UNION {{<<el>> \o d : el \in ElementsOfSize(k), d \in DocumentsOfSize(n - k)} :
                  k \in 1..n}

Documents == UNION {DocumentsOfSize(n) : n \in 0..MaxElements}

\* The value of a lookup that finds nothing (JavaScript null).
Null == <<>>

\* The value of a call that returns nothing (JavaScript undefined).
Undefined == "undefined"

HasId(el, id) == el.id = id \/ \E j \in 1..Len(el.kids) : el.kids[j].id = id

FirstKid(el, id) ==
  CHOOSE j \in 1..Len(el.kids) :
    /\ el.kids[j].id = id
    /\ \A k \in 1..(j - 1) : el.kids[k].id # id

\* document.getElementById: the path of the first element in tree order
\* (preorder) whose id is the one asked for, or null.
getElementById(d, elementId) ==
  IF elementId = "" \/ ~(\E i \in 1..Len(d) : HasId(d[i], elementId))
    THEN Null
    ELSE LET i == CHOOSE i \in 1..Len(d) :
                    /\ HasId(d[i], elementId)
                    /\ \A k \in 1..(i - 1) : ~HasId(d[k], elementId)
         IN  IF d[i].id = elementId THEN <<i>> ELSE <<i, FirstKid(d[i], elementId)>>

RECURSIVE ConcatText(_)
ConcatText(kids) ==
  IF kids = <<>> THEN "" ELSE Head(kids).text \o ConcatText(Tail(kids))

\* Reading element.textContent: the text of all descendants, concatenated.
textContent(d, element) ==
  IF Len(element) = 1
    THEN d[element[1]].text \o ConcatText(d[element[1]].kids)
    ELSE d[element[1]].kids[element[2]].text

\* Assigning element.textContent: every child is removed and replaced by one
\* text node holding the string.
setTextContent(d, element, message) ==
  IF Len(element) = 1
    THEN [d EXCEPT ![element[1]] = [@ EXCEPT !.text = message, !.kids = <<>>]]
    ELSE [d EXCEPT ![element[1]].kids[element[2]].text = message]

\* The identifiers of all elements of the document, and the elements' paths.
Paths(d) ==
  {<<i>> : i \in 1..Len(d)}
    \cup UNION {{<<i, j>> : j \in 1..Len(d[i].kids)} : i \in 1..Len(d)}

IdAt(d, p) == IF Len(p) = 1 THEN d[p[1]].id ELSE d[p[1]].kids[p[2]].id

IdsIn(d) == {IdAt(d, p) : p \in Paths(d)}

-----------------------------------------------------------------------------
(* The console *)

ErrorEntry(text) == [level |-> "error", text |-> text]
LogEntry(text) == [level |-> "log", text |-> text]

NotFoundText(elementId) == "Element with ID '" \o elementId \o "' not found"
SuccessText == "Hello World application initialized successfully"

-----------------------------------------------------------------------------
(* The module's functions, as functions of the document and the console *)

\* displayMessage with "element.textContent += message".
displayMessage_appends(d, c, message, elementId) ==
  LET element == getElementById(d, elementId) IN
  IF element = Null
    THEN [doc |-> d,
          console |-> Append(c, ErrorEntry(NotFoundText(elementId))),
          ret |-> Undefined, threw |-> FALSE]
    ELSE [doc |-> setTextContent(d, element, textContent(d, element) \o message),
          console |-> c,
          ret |-> Undefined, threw |-> FALSE]

\* displayMessage that creates the element it does not find.
displayMessage_creates(d, c, message, elementId) ==
  LET element == getElementById(d, elementId) IN
  IF element = Null
    THEN [doc |-> Append(d, [id |-> elementId, text |-> message, kids |-> <<>>]),
          console |-> Append(c, ErrorEntry(NotFoundText(elementId))),
          ret |-> Undefined, threw |-> FALSE]
    ELSE [doc |-> setTextContent(d, element, message),
          console |-> c,
          ret |-> Undefined, threw |-> FALSE]

\* displayMessage whose diagnostic interpolates the message, not the id.
displayMessage_reportsMessage(d, c, message, elementId) ==
  LET element == getElementById(d, elementId) IN
  IF element = Null
    THEN [doc |-> d,
          console |-> Append(c, ErrorEntry(NotFoundText(message))),
          ret |-> Undefined, threw |-> FALSE]
    ELSE [doc |-> setTextContent(d, element, message),
          console |-> c,
          ret |-> Undefined, threw |-> FALSE]

\* displayMessage with "return false" on the not-found path.
displayMessage_returnsFalse(d, c, message, elementId) ==
  LET element == getElementById(d, elementId) IN
  IF element = Null
    THEN [doc |-> d,
          console |-> Append(c, ErrorEntry(NotFoundText(elementId))),
          ret |-> "false", threw |-> FALSE]
    ELSE [doc |-> setTextContent(d, element, message),
          console |-> c,
          ret |-> Undefined, threw |-> FALSE]

\* displayMessage that logs what it has written.
displayMessage_logsWrite(d, c, message, elementId) ==
  LET element == getElementById(d, elementId) IN
  IF element = Null
    THEN [doc |-> d,
          console |-> Append(c, ErrorEntry(NotFoundText(elementId))),
          ret |-> Undefined, threw |-> FALSE]
    ELSE [doc |-> setTextContent(d, element, message),
          console |-> Append(c, LogEntry(message)),
          ret |-> Undefined, threw |-> FALSE]

\* displayMessage with "element.parentNode.textContent = message" for an
\* element nested in another.
displayMessage_writesParent(d, c, message, elementId) ==
  LET element == getElementById(d, elementId) IN
  IF element = Null
    THEN [doc |-> d,
          console |-> Append(c, ErrorEntry(NotFoundText(elementId))),
          ret |-> Undefined, threw |-> FALSE]
    ELSE [doc |-> setTextContent(d, <<element[1]>>, message),
          console |-> c,
          ret |-> Undefined, threw |-> FALSE]

\* displayMessage with the guard "if (!element || !message)".
displayMessage_rejectsEmpty(d, c, message, elementId) ==
  LET element == getElementById(d, elementId) IN
  IF element = Null \/ message = ""
    THEN [doc |-> d,
          console |-> Append(c, ErrorEntry(NotFoundText(elementId))),
          ret |-> Undefined, threw |-> FALSE]
    ELSE [doc |-> setTextContent(d, element, message),
          console |-> c,
          ret |-> Undefined, threw |-> FALSE]

displayMessage(d, c, message, elementId) ==
  LET element == getElementById(d, elementId) IN
  IF element = Null
    THEN [doc |-> d,
          console |-> Append(c, ErrorEntry(NotFoundText(elementId))),
          ret |-> Undefined, threw |-> FALSE]
    ELSE [doc |-> setTextContent(d, element, message),
          console |-> c,
          ret |-> Undefined, threw |-> FALSE]

\* init that logs the confirmation before it displays the message.
init_logsFirst(d, c) ==
  LET r == displayMessage(d, Append(c, LogEntry(SuccessText)), "Hello World", "message") IN
  [doc |-> r.doc, console |-> r.console, ret |-> Undefined, threw |-> r.threw]

\* init that confirms only when the sink is there.
init_guarded(d, c) ==
  LET r == displayMessage(d, c, "Hello World", "message") IN
  IF r.threw \/ getElementById(d, "message") = Null
    THEN r
    ELSE [doc |-> r.doc,
          console |-> Append(r.console, LogEntry(SuccessText)),
          ret |-> Undefined, threw |-> FALSE]

\* init with the two arguments of displayMessage swapped.
init_swapped(d, c) ==
  LET r == displayMessage(d, c, "message", "Hello World") IN
  IF r.threw
    THEN r
    ELSE [doc |-> r.doc,
          console |-> Append(r.console, LogEntry(SuccessText)),
          ret |-> Undefined, threw |-> FALSE]

init(d, c) ==
  LET r == displayMessage(d, c, "Hello World", "message") IN
  IF r.threw
    THEN r
    ELSE [doc |-> r.doc,
          console |-> Append(r.console, LogEntry(SuccessText)),
          ret |-> Undefined, threw |-> FALSE]

-----------------------------------------------------------------------------
(* The record of calls *)

Entry(op, caller, message, elementId, d, c, r) ==
  [op |-> op, caller |-> caller, message |-> message, elementId |-> elementId,
   pre |-> [doc |-> d, console |-> c],
   post |-> [doc |-> r.doc, console |-> r.console],
   ret |-> r.ret, threw |-> r.threw]

displayMessageEntries(caller, message, elementId, d, c) ==
  <<Entry("displayMessage", caller, message, elementId, d, c,
          displayMessage(d, c, message, elementId))>>

initEntries(caller, d, c) ==
  displayMessageEntries("init", "Hello World", "message", d, c)
    \o <<Entry("init", caller, "", "", d, c, init(d, c))>>

TopCalls == Cardinality({i \in 1..Len(trace) : trace[i].caller # "init"})
initRuns == Cardinality({i \in 1..Len(trace) : trace[i].op = "init"})

-----------------------------------------------------------------------------
(* The page: the script is evaluated, the host builds the document and     *)
(* fires the load signal                                                    *)

Init ==
  /\ doc = <<>>
  /\ console = <<>>
  /\ listeners = <<>>
  /\ pc = "script"
  /\ fired = 0
  /\ trace = <<>>
  /\ hostOps = 0

\* document.addEventListener('DOMContentLoaded', listener): a listener that
\* is already registered for the event is not registered again.
addEventListener(ls, listener) ==
  IF \E i \in 1..Len(ls) : ls[i] = listener THEN ls ELSE Append(ls, listener)

\* The record of the registration call, which changes neither the document
\* nor the console.
registrationEntries(d, c) ==
  <<Entry("addEventListener", "script", "", "", d, c,
          [doc |-> d, console |-> c, ret |-> Undefined, threw |-> FALSE])>>

\* A script that registers two wrappers of init.
RunScript_twice ==
  /\ pc = "script"
  /\ listeners' = listeners \o <<"init", "init">>
  /\ pc' = "registered"
  /\ trace' = trace \o registrationEntries(doc, console)
  /\ UNCHANGED <<doc, console, fired, hostOps>>

\* A script with "addEventListener('DOMContentLoaded', init())": init runs
\* during the evaluation of the script, and its result, undefined, registers
\* nothing.
RunScript_callsInit ==
  LET r == init(doc, console) IN
  /\ pc = "script"
  /\ doc' = r.doc
  /\ console' = r.console
  /\ listeners' = listeners
  /\ pc' = "registered"
  /\ trace' = trace \o initEntries("script", doc, console)
                    \o registrationEntries(r.doc, r.console)
  /\ UNCHANGED <<fired, hostOps>>

\* Evaluation of the script: displayMessage and init are defined, and init
\* is registered for DOMContentLoaded.
RunScript ==
  /\ pc = "script"
  /\ listeners' = addEventListener(listeners, "init")
  /\ pc' = "registered"
  /\ trace' = trace \o registrationEntries(doc, console)
  /\ UNCHANGED <<doc, console, fired, hostOps>>

\* A listener that writes to the element the script looked up when it
\* registered the listener.
runListener_early(listener, s) ==
  LET reg == s.trace[CHOOSE i \in 1..Len(s.trace) : s.trace[i].op = "addEventListener"]
      now == getElementById(s.doc, "message")
      c == IF getElementById(reg.pre.doc, "message") = Null
             THEN Append(s.console, ErrorEntry(NotFoundText("message")))
             ELSE s.console
      d == IF getElementById(reg.pre.doc, "message") = Null \/ now = Null
             THEN s.doc
             ELSE setTextContent(s.doc, now, "Hello World")
  IN  [doc |-> d, console |-> Append(c, LogEntry(SuccessText)),
       trace |-> s.trace \o initEntries("host", s.doc, s.console)]

\* One listener of the event runs to completion.
runListener(listener, s) ==
  IF listener = "init"
    THEN LET r == init(s.doc, s.console) IN
         [doc |-> r.doc, console |-> r.console,
          trace |-> s.trace \o initEntries("host", s.doc, s.console)]
    ELSE s

\* The host dispatches the event: the registered listeners run one after
\* the other, in registration order.
RECURSIVE dispatch(_, _)
dispatch(ls, s) ==
  IF ls = <<>> THEN s ELSE dispatch(Tail(ls), runListener(Head(ls), s))

Fire ==
  LET s == dispatch(listeners, [doc |-> doc, console |-> console, trace |-> trace]) IN
  /\ doc' = s.doc
  /\ console' = s.console
  /\ trace' = s.trace
  /\ fired' = fired + 1
  /\ UNCHANGED <<listeners, pc, hostOps>>

\* A component that is run again while its last run found no sink.
DOMContentLoaded_retry ==
  /\ pc = "registered"
  /\ fired < MaxFirings
  /\ \/ fired = 0
     \/ /\ trace[Len(trace)].op = "init"
        /\ getElementById(trace[Len(trace)].pre.doc, "message") = Null
  /\ Fire

\* The host fires the load signal, once per document, after the script has
\* been evaluated.
DOMContentLoaded ==
  /\ pc = "registered"
  /\ fired = 0
  /\ Fire

\* A host that dispatches the load signal again.
DispatchAgain ==
  /\ pc = "registered"
  /\ fired >= 1
  /\ fired < MaxFirings
  /\ Fire

\* The host (parser or another script) appends an element to the document.
HostAppend(el) ==
  /\ pc \in {"script", "registered"}
  /\ hostOps < MaxHostOps
  /\ Size(doc) + Size(<<el>>) <= MaxElements
  /\ doc' = Append(doc, el)
  /\ hostOps' = hostOps + 1
  /\ UNCHANGED <<console, listeners, pc, fired, trace>>

\* The host removes a top-level element, with its children.
HostRemove(i) ==
  /\ pc \in {"script", "registered"}
  /\ hostOps < MaxHostOps
  /\ i \in 1..Len(doc)
  /\ doc' = SubSeq(doc, 1, i - 1) \o SubSeq(doc, i + 1, Len(doc))
  /\ hostOps' = hostOps + 1
  /\ UNCHANGED <<console, listeners, pc, fired, trace>>

Host ==
  \/ \E el \in Element : HostAppend(el)
  \/ \E i \in 1..MaxElements : HostRemove(i)

Next ==
  \/ RunScript
  \/ DOMContentLoaded
  \/ Host

Spec == Init /\ [][Next]_vars

NextRefire ==
  \/ Next
  \/ DispatchAgain

SpecRefire == Init /\ [][NextRefire]_vars

-----------------------------------------------------------------------------
(* Calls of the two functions on arbitrary documents and arguments *)

InitCalls ==
  /\ doc \in Documents
  /\ console = <<>>
  /\ listeners = <<>>
  /\ pc = "calls"
  /\ fired = 0
  /\ trace = <<>>
  /\ hostOps = 0

CallDisplayMessage(message, elementId) ==
  LET r == displayMessage(doc, console, message, elementId) IN
  /\ pc = "calls"
  /\ TopCalls < MaxCalls
  /\ doc' = r.doc
  /\ console' = r.console
  /\ trace' = trace \o displayMessageEntries("caller", message, elementId, doc, console)
  /\ UNCHANGED <<listeners, pc, fired, hostOps>>

CallInit ==
  LET r == init(doc, console) IN
  /\ pc = "calls"
  /\ TopCalls < MaxCalls
  /\ doc' = r.doc
  /\ console' = r.console
  /\ trace' = trace \o initEntries("caller", doc, console)
  /\ UNCHANGED <<listeners, pc, fired, hostOps>>

NextCalls ==
  \/ \E message \in Messages, elementId \in TargetIds :
       CallDisplayMessage(message, elementId)
  \/ CallInit

SpecCalls == InitCalls /\ [][NextCalls]_vars

-----------------------------------------------------------------------------
(* Vocabulary of the properties *)

\* The recorded calls of displayMessage and of init.
displayMessageCalls == {i \in 1..Len(trace) : trace[i].op = "displayMessage"}
initCalls == {i \in 1..Len(trace) : trace[i].op = "init"}

\* The identifier names a sink of the document.
SinkExists(d, t) == getElementById(d, t) # Null

\* The visible text of the sink an identifier names.
SinkText(d, t) == textContent(d, getElementById(d, t))

\* The text contains the identifier.
Mentions(text, t) ==
  \E k \in 1..Len(text) :
    /\ k + Len(t) - 1 <= Len(text)
    /\ SubSeq(text, k, k + Len(t) - 1) = t

\* The entries a call added to the console.
Added(e) == SubSeq(e.post.console, Len(e.pre.console) + 1, Len(e.post.console))

\* The call kept every entry the console held before.
KeptConsole(e) ==
  /\ Len(e.post.console) >= Len(e.pre.console)
  /\ SubSeq(e.post.console, 1, Len(e.pre.console)) = e.pre.console

-----------------------------------------------------------------------------
(* displayMessage *)

\* C1: after displayMessage(m, t) with a non-empty m and an identifier t that
\* names an existing sink, the text of sink t equals m exactly.
C1_WritesMessageExactly ==
  \A i \in displayMessageCalls :
    LET e == trace[i] IN
    (e.message # "" /\ SinkExists(e.pre.doc, e.elementId))
      => /\ SinkExists(e.post.doc, e.elementId)
         /\ SinkText(e.post.doc, e.elementId) = e.message

\* A call that wrote a non-empty message over a sink whose text was another,
\* non-empty one.
C1_Witness ==
  \E i \in displayMessageCalls :
    LET e == trace[i] IN
    /\ e.message # ""
    /\ SinkExists(e.pre.doc, e.elementId)
    /\ SinkText(e.pre.doc, e.elementId) \notin {"", e.message}
    /\ SinkText(e.post.doc, e.elementId) = e.message

\* C2: displayMessage(m, t') with an identifier that names no sink leaves the
\* content of every sink unchanged and neither creates nor removes a sink.
C2_NotFoundLeavesSinksAlone ==
  \A i \in displayMessageCalls :
    LET e == trace[i] IN
    ~SinkExists(e.pre.doc, e.elementId)
      => /\ Paths(e.post.doc) = Paths(e.pre.doc)
         /\ \A p \in Paths(e.pre.doc) :
              /\ IdAt(e.post.doc, p) = IdAt(e.pre.doc, p)
              /\ textContent(e.post.doc, p) = textContent(e.pre.doc, p)
         /\ e.post.doc = e.pre.doc

\* A call whose identifier named no sink, on a document that has sinks with
\* text in them.
C2_Witness ==
  \E i \in displayMessageCalls :
    LET e == trace[i] IN
    /\ ~SinkExists(e.pre.doc, e.elementId)
    /\ \E p \in Paths(e.pre.doc) : textContent(e.pre.doc, p) # ""
    /\ e.post.doc = e.pre.doc

\* C3: displayMessage(m, t') with an identifier that names no sink appends
\* exactly one entry to the console; it is an error entry and it references
\* t'.
C3_NotFoundReportsOnce ==
  \A i \in displayMessageCalls :
    LET e == trace[i] IN
    ~SinkExists(e.pre.doc, e.elementId)
      => /\ KeptConsole(e)
         /\ Len(Added(e)) = 1
         /\ Added(e)[1].level = "error"
         /\ Mentions(Added(e)[1].text, e.elementId)

\* A call whose identifier named no sink, made when the console already held
\* an entry, and which added an error entry naming the identifier.
C3_Witness ==
  \E i \in displayMessageCalls :
    LET e == trace[i] IN
    /\ ~SinkExists(e.pre.doc, e.elementId)
    /\ e.pre.console # <<>>
    /\ Len(Added(e)) = 1
    /\ Added(e)[1] = ErrorEntry(NotFoundText(e.elementId))

\* Two calls of displayMessage made one after the other by the same caller.
Consecutive(i) ==
  /\ i \in displayMessageCalls
  /\ i + 1 \in displayMessageCalls
  /\ trace[i].caller = trace[i + 1].caller
  /\ trace[i + 1].pre = trace[i].post

\* C4: displayMessage overwrites: displayMessage(m, t) followed by
\* displayMessage(m2, t) on an existing sink t leaves its text equal to m2
\* alone, and displayMessage(m, t) twice leaves the state that one call leaves.
C4_OverwritesAndIdempotent ==
  \A i \in 1..Len(trace) :
    (/\ Consecutive(i)
     /\ trace[i].elementId = trace[i + 1].elementId
     /\ SinkExists(trace[i].pre.doc, trace[i].elementId))
      => /\ SinkExists(trace[i + 1].post.doc, trace[i].elementId)
         /\ SinkText(trace[i + 1].post.doc, trace[i].elementId) = trace[i + 1].message
         /\ trace[i + 1].message = trace[i].message
              => trace[i + 1].post = trace[i].post

\* Two calls on the same existing sink, which held text before, the first
\* with one non-empty message and the second with another.
C4_Witness ==
  \E i \in 1..Len(trace) :
    /\ Consecutive(i)
    /\ trace[i].elementId = trace[i + 1].elementId
    /\ SinkExists(trace[i].pre.doc, trace[i].elementId)
    /\ SinkText(trace[i].pre.doc, trace[i].elementId) # ""
    /\ trace[i].message # ""
    /\ trace[i + 1].message \notin {"", trace[i].message}
    /\ SinkText(trace[i + 1].post.doc, trace[i].elementId) = trace[i + 1].message

-----------------------------------------------------------------------------
(* init *)

\* C5: from every starting state, init() leaves the sinks and the console as
\* displayMessage('Hello World', 'message') followed by one confirmation
\* entry leaves them; the confirmation is appended whether or not the sink
\* was found, after any diagnostic of the inner call.
C5_InitIsDisplayThenConfirm ==
  \A i \in initCalls :
    LET e == trace[i]
        r == displayMessage(e.pre.doc, e.pre.console, "Hello World", "message")
    IN  /\ e.post.doc = r.doc
        /\ e.post.console = Append(r.console, LogEntry(SuccessText))

\* A run of init on a document without the sink 'message', after which the
\* console ends with the error of the inner call and then the confirmation.
C5_Witness ==
  \E i \in initCalls :
    LET e == trace[i] IN
    /\ ~SinkExists(e.pre.doc, "message")
    /\ e.pre.doc # <<>>
    /\ Added(e) = <<ErrorEntry(NotFoundText("message")), LogEntry(SuccessText)>>

\* C6: if a sink 'message' exists when init() runs, its text is "Hello World"
\* afterwards, whether it was empty or held other text before.
C6_InitWritesHelloWorld ==
  \A i \in initCalls :
    LET e == trace[i] IN
    SinkExists(e.pre.doc, "message")
      => /\ SinkExists(e.post.doc, "message")
         /\ SinkText(e.post.doc, "message") = "Hello World"

\* The load signal ran init on a document whose sink 'message' held
\* "Old Text".
C6_Witness ==
  \E i \in initCalls :
    LET e == trace[i] IN
    /\ SinkExists(e.pre.doc, "message")
    /\ SinkText(e.pre.doc, "message") = "Old Text"
    /\ SinkText(e.post.doc, "message") = "Hello World"

\* C7: if no sink 'message' exists when init() runs, the console afterwards
\* holds an error entry that mentions 'message', and no sink was mutated.
C7_InitWithoutSinkReports ==
  \A i \in initCalls :
    LET e == trace[i] IN
    ~SinkExists(e.pre.doc, "message")
      => /\ \E k \in 1..Len(Added(e)) :
              /\ Added(e)[k].level = "error"
              /\ Mentions(Added(e)[k].text, "message")
         /\ e.post.doc = e.pre.doc

\* The load signal ran init on a document that has a sink with text, but
\* none named 'message'.
C7_Witness ==
  \E i \in initCalls :
    LET e == trace[i] IN
    /\ ~SinkExists(e.pre.doc, "message")
    /\ \E p \in Paths(e.pre.doc) : textContent(e.pre.doc, p) # ""
    /\ e.post.doc = e.pre.doc
    /\ \E k \in 1..Len(e.post.console) : e.post.console[k].level = "error"

\* C8: every completed run of init() ends with the "initialized
\* successfully" entry on the console, also when the sink 'message' is absent.
C8_InitAlwaysConfirms ==
  \A i \in initCalls :
    LET e == trace[i] IN
    /\ e.post.console # <<>>
    /\ e.post.console[Len(e.post.console)] = LogEntry(SuccessText)
    /\ Mentions(SuccessText, "initialized successfully")

\* A run of init that found no sink 'message' and still confirmed.
C8_Witness ==
  \E i \in initCalls :
    LET e == trace[i] IN
    /\ ~SinkExists(e.pre.doc, "message")
    /\ e.post.console[Len(e.post.console)] = LogEntry(SuccessText)

-----------------------------------------------------------------------------
(* What the caller of displayMessage sees *)

\* C9: displayMessage returns no value and raises nothing on the write path
\* and on the not-found path alike, so any two calls give their callers the
\* same value and control flow.
C9_CallerSeesNothing ==
  /\ \A i \in displayMessageCalls :
       trace[i].ret = Undefined /\ ~trace[i].threw
  /\ \A i, j \in displayMessageCalls :
       <<trace[i].ret, trace[i].threw>> = <<trace[j].ret, trace[j].threw>>

\* Two calls with the same message, one whose sink exists and one whose sink
\* does not.
C9_Witness ==
  \E i, j \in displayMessageCalls :
    /\ trace[i].message = trace[j].message
    /\ trace[i].caller = "caller"
    /\ trace[j].caller = "caller"
    /\ SinkExists(trace[i].pre.doc, trace[i].elementId)
    /\ ~SinkExists(trace[j].pre.doc, trace[j].elementId)
    /\ trace[i].ret = trace[j].ret

-----------------------------------------------------------------------------
(* The life of the component *)

\* idle before init has run, done once it has run exactly once.
state ==
  IF initRuns = 0 THEN "idle" ELSE IF initRuns = 1 THEN "done" ELSE "rerun"

\* C10: the component is idle or done; its only transition is idle -> done,
\* taken when the host fires the load signal, which runs init once; from done
\* it never returns to idle and never runs init again.
C10_IdleThenDone ==
  [][/\ state' \in {"idle", "done"}
     /\ state' # state
          => (state = "idle" /\ state' = "done" /\ fired = 0 /\ fired' = 1)
     /\ fired' # fired => (state = "idle" /\ state' = "done")
     /\ state = "done" => (state' = "done" /\ initRuns' = initRuns)]_vars

\* The component is done and the host has gone on changing the document.
C10_Witness ==
  /\ state = "done"
  /\ fired = 1
  /\ Len(trace) > 0
  /\ doc # trace[Len(trace)].post.doc

\* The writes the component made on the sink 'message'.
writes ==
  Cardinality({i \in displayMessageCalls :
                 /\ trace[i].elementId = "message"
                 /\ SinkExists(trace[i].pre.doc, "message")})

\* Every text of the document is one the host put there.
HostTexts(d) ==
  \A i \in 1..Len(d) :
    /\ d[i].text \in Texts
    /\ \A j \in 1..Len(d[i].kids) : d[i].kids[j].text \in Texts

\* The registration call of the script.
registrations == {i \in 1..Len(trace) : trace[i].op = "addEventListener"}

\* An entry of the sequence is an error entry.
HasError(entries) == \E k \in 1..Len(entries) : entries[k].level = "error"

\* C11: over a page lifetime the component writes the sink 'message' at most
\* once.
C11_WritesAtMostOnce ==
  /\ writes <= 1
  /\ writes = 0 => HostTexts(doc)

\* The component has written the sink and the host has then removed or added
\* elements.
C11_Witness ==
  /\ writes = 1
  /\ fired = 1
  /\ hostOps > 0
  /\ \E i \in initCalls : doc # trace[i].post.doc /\ trace[i].post.doc # trace[i].pre.doc

\* C12: when the host fires the load signal more than once, every firing runs
\* init once and to completion, the runs do not interleave, and right after
\* each firing the text of sink 'message', when it exists, is "Hello World".
C12_RefireLastWriteWins ==
  [][fired' # fired
       => /\ Len(trace') = Len(trace) + 2
          /\ SubSeq(trace', 1, Len(trace)) = trace
          /\ trace'[Len(trace) + 1].op = "displayMessage"
          /\ trace'[Len(trace) + 1].caller = "init"
          /\ trace'[Len(trace) + 1].pre = [doc |-> doc, console |-> console]
          /\ trace'[Len(trace) + 2].op = "init"
          /\ trace'[Len(trace) + 2].pre = [doc |-> doc, console |-> console]
          /\ trace'[Len(trace) + 2].post = [doc |-> doc', console |-> console']
          /\ SinkExists(doc', "message") = SinkExists(doc, "message")
          /\ SinkExists(doc', "message") => SinkText(doc', "message") = "Hello World"]_vars

\* The signal was fired twice, both runs of init found the sink, and it
\* holds "Hello World".
C12_Witness ==
  /\ fired = 2
  /\ \E i, j \in initCalls :
       /\ i < j
       /\ SinkExists(trace[i].pre.doc, "message")
       /\ SinkExists(trace[j].pre.doc, "message")
       /\ trace[j].post.doc = doc
  /\ SinkText(doc, "message") = "Hello World"

\* C13: before the host fires the load signal the component has no effect:
\* the registration wrote no sink and no console entry, and init has not run.
C13_IdleHasNoEffect ==
  fired = 0
    => /\ console = <<>>
       /\ initCalls = {}
       /\ displayMessageCalls = {}
       /\ HostTexts(doc)
       /\ \A i \in registrations : trace[i].post = trace[i].pre

\* The listener is registered, the signal has not fired, and the document has
\* a sink 'message'.
C13_Witness ==
  /\ pc = "registered"
  /\ fired = 0
  /\ registrations # {}
  /\ SinkExists(doc, "message")
  /\ console = <<>>

\* C14: the sink is looked up when the signal fires: absent at registration
\* and present at the firing, it ends with "Hello World" and no error entry;
\* present at registration and absent at the firing, an error entry is added
\* and nothing is written.
C14_LookupAtFiring ==
  [][fired' # fired
       => \A i \in registrations :
            /\ (~SinkExists(trace[i].pre.doc, "message") /\ SinkExists(doc, "message"))
                 => /\ SinkExists(doc', "message")
                    /\ SinkText(doc', "message") = "Hello World"
                    /\ ~HasError(console')
            /\ (SinkExists(trace[i].pre.doc, "message") /\ ~SinkExists(doc, "message"))
                 => /\ doc' = doc
                    /\ HasError(SubSeq(console', Len(console) + 1, Len(console')))]_vars

\* The sink was absent when the listener was registered, the host added it
\* with text before the signal fired, and it holds "Hello World".
C14_Witness ==
  /\ fired = 1
  /\ \E i \in registrations, j \in initCalls :
       /\ ~SinkExists(trace[i].pre.doc, "message")
       /\ SinkExists(trace[j].pre.doc, "message")
       /\ SinkText(trace[j].pre.doc, "message") = "Old Text"
       /\ trace[j].post.doc = doc
  /\ SinkText(doc, "message") = "Hello World"
  /\ ~HasError(console)

\* The other case of C14: the sink was there at registration and gone at the
\* firing.
C14_RemovedBeforeFiring ==
  /\ fired = 1
  /\ \E i \in registrations, j \in initCalls :
       /\ SinkExists(trace[i].pre.doc, "message")
       /\ ~SinkExists(trace[j].pre.doc, "message")
  /\ HasError(console)

\* C15: there is no retry: when the sink 'message' was absent at the firing,
\* the component never writes afterwards, so a sink the host adds later keeps
\* the text the host gave it, and the console gets no further entry.
C15_NoRetry ==
  \A j \in initCalls :
    ~SinkExists(trace[j].pre.doc, "message")
      => /\ writes = 0
         /\ HostTexts(doc)
         /\ console = trace[j].post.console
         /\ initRuns = 1

\* init found no sink, and the host has since added a sink 'message' holding
\* "Old Text".
C15_Witness ==
  /\ fired = 1
  /\ \E j \in initCalls : ~SinkExists(trace[j].pre.doc, "message")
  /\ SinkExists(doc, "message")
  /\ SinkText(doc, "message") = "Old Text"

-----------------------------------------------------------------------------
(* Diagnostics and frame of displayMessage *)

\* The calls of displayMessage whose identifier named no sink.
failedCalls ==
  {i \in displayMessageCalls : ~SinkExists(trace[i].pre.doc, trace[i].elementId)}

errorEntries == {k \in 1..Len(console) : console[k].level = "error"}

\* C16: target-not-found is the only error reported: the console holds one
\* error entry per call of displayMessage whose identifier named no sink, a
\* call whose sink exists adds no entry, and an init that found its sink adds
\* the confirmation only.
C16_OnlyNotFoundErrors ==
  /\ Cardinality(errorEntries) = Cardinality(failedCalls)
  /\ \A k \in errorEntries :
       \E i \in failedCalls : console[k].text = NotFoundText(trace[i].elementId)
  /\ \A i \in displayMessageCalls :
       SinkExists(trace[i].pre.doc, trace[i].elementId)
         => trace[i].post.console = trace[i].pre.console
  /\ \A i \in initCalls :
       SinkExists(trace[i].pre.doc, "message")
         => Added(trace[i]) = <<LogEntry(SuccessText)>>

\* A call that found no sink, then an init that found its sink: one error
\* entry and the confirmation.
C16_Witness ==
  /\ Cardinality(errorEntries) = 1
  /\ \E i \in failedCalls, j \in initCalls :
       /\ i < j
       /\ SinkExists(trace[j].pre.doc, "message")
       /\ trace[j].post.console = console
  /\ Len(console) = 2

\* The second element is nested in the first.
Inside(q, p) == Len(p) = 1 /\ Len(q) = 2 /\ q[1] = p[1]

\* C17 as stated: a successful displayMessage(m, t) leaves the content of
\* every sink with another identifier unchanged and the set of identifiers
\* present in the document the same.
C17_Original ==
  \A i \in displayMessageCalls :
    LET e == trace[i] IN
    SinkExists(e.pre.doc, e.elementId)
      => /\ IdsIn(e.post.doc) = IdsIn(e.pre.doc)
         /\ \A q \in Paths(e.pre.doc) :
              IdAt(e.pre.doc, q) # e.elementId
                => /\ q \in Paths(e.post.doc)
                   /\ IdAt(e.post.doc, q) = IdAt(e.pre.doc, q)
                   /\ textContent(e.post.doc, q) = textContent(e.pre.doc, q)

\* C17, amended: a successful displayMessage(m, t) removes the sinks nested
\* inside sink t and creates none; every remaining sink keeps its identifier;
\* every sink other than t that does not contain t keeps its content, and a
\* sink that contains t keeps its own text; the identifiers present
\* afterwards are among those present before.
C17_ChangesOnlyTargetSubtree ==
  \A i \in displayMessageCalls :
    LET e == trace[i]
        p == getElementById(e.pre.doc, e.elementId)
    IN  p # Null
          => /\ Paths(e.post.doc) = {q \in Paths(e.pre.doc) : ~Inside(q, p)}
             /\ IdsIn(e.post.doc) \subseteq IdsIn(e.pre.doc)
             /\ \A q \in Paths(e.post.doc) :
                  /\ IdAt(e.post.doc, q) = IdAt(e.pre.doc, q)
                  /\ (q # p /\ ~Inside(p, q))
                       => textContent(e.post.doc, q) = textContent(e.pre.doc, q)
                  /\ Inside(p, q)
                       => e.post.doc[q[1]].text = e.pre.doc[q[1]].text

\* A call that wrote a sink holding a nested sink with another identifier:
\* the write removed the nested sink, and its identifier left the document.
C17_Witness ==
  \E i \in displayMessageCalls :
    LET e == trace[i]
        p == getElementById(e.pre.doc, e.elementId)
    IN  /\ p # Null
        /\ Len(p) = 1
        /\ \E q \in Paths(e.pre.doc) :
             /\ Inside(q, p)
             /\ IdAt(e.pre.doc, q) # e.elementId
             /\ q \notin Paths(e.post.doc)
        /\ IdsIn(e.post.doc) # IdsIn(e.pre.doc)
        /\ SinkText(e.post.doc, e.elementId) = e.message

\* A call that wrote a sink nested in a sink with another identifier: the
\* outer sink keeps its own text, and its visible text changes.
C17_WroteNested ==
  \E i \in displayMessageCalls :
    LET e == trace[i]
        p == getElementById(e.pre.doc, e.elementId)
    IN  /\ p # Null
        /\ Len(p) = 2
        /\ e.pre.doc[p[1]].id # e.elementId
        /\ e.pre.doc[p[1]].text # ""
        /\ e.post.doc[p[1]].text = e.pre.doc[p[1]].text
        /\ textContent(e.post.doc, <<p[1]>>) # textContent(e.pre.doc, <<p[1]>>)
        /\ SinkText(e.post.doc, e.elementId) = e.message

\* C18: displayMessage('', t) on an existing sink t takes the write path: the
\* sink's text is empty afterwards, prior content is discarded, and no
\* console entry is added.
C18_EmptyMessageIsWritten ==
  \A i \in displayMessageCalls :
    LET e == trace[i]
        p == getElementById(e.pre.doc, e.elementId)
    IN  (e.message = "" /\ p # Null)
          => /\ getElementById(e.post.doc, e.elementId) = p
             /\ SinkText(e.post.doc, e.elementId) = ""
             /\ e.post.doc = setTextContent(e.pre.doc, p, "")
             /\ e.post.console = e.pre.console

\* A call with the empty message on a sink that held "Old Text".
C18_Witness ==
  \E i \in displayMessageCalls :
    LET e == trace[i] IN
    /\ e.message = ""
    /\ SinkExists(e.pre.doc, e.elementId)
    /\ SinkText(e.pre.doc, e.elementId) = "Old Text"
    /\ SinkText(e.post.doc, e.elementId) = ""
    /\ e.post.console = e.pre.console

====
